---------------------------- MODULE Spec2Model ----------------------------
(***************************************************************************)
(* Model of the chart-type classifier (ChartBuilder._detect_chart_type),   *)
(* the three renderers of ChartBuilder, ChartBuilder.auto_visualize and    *)
(* the recommendation workflow IntelligentAgent.analyze_and_visualize.     *)
(*                                                                         *)
(* A table (pandas DataFrame) is a sequence of columns, each a record      *)
(* [name, numeric, vals].  A column name is a sequence of one-character    *)
(* strings, so that str.lower() and the substring test `kw in col` are     *)
(* computed as Python computes them.  A mean is an exact fraction          *)
(* [num, den] with den > 0; the float division of two means is modelled    *)
(* with the IEEE outcomes inf and nan for a zero divisor.                  *)
(***************************************************************************)
EXTENDS Integers, Sequences, FiniteSets, TLC

VARIABLES df, pc, chart_type, config, recommendation, calls, ops, files, result

vars == <<df, pc, chart_type, config, recommendation, calls, ops, files, result>>

(***************************** bounds and inputs ***************************)

\* Largest number of columns of a table.
MaxCols == 3

\* Column headers the tables are built from.
Month == <<"M", "o", "n", "t", "h">>
Revenue == <<"R", "e", "v", "e", "n", "u", "e">>
Customers == <<"C", "u", "s", "t", "o", "m", "e", "r", "s">>
total_sales == <<"t", "o", "t", "a", "l", "_", "s", "a", "l", "e", "s">>
Visits == <<"V", "i", "s", "i", "t", "s">>

\* A header that no table has, and JSON null / Python None.
Ghost == <<"G", "h", "o", "s", "t">>
None == <<"<None>">>

Names == {Month, Revenue, Customers, total_sales, Visits}
AgentNames == {Month, Revenue, Customers}

\* Values of a numeric column (two rows): means 0, 2, 20 and -20.
Series == {<<0, 0>>, <<1, 3>>, <<10, 30>>, <<-10, -30>>}
AgentSeries == {<<1, 3>>, <<10, 30>>}

\* Values of a text column (two rows).
Labels == <<"Jan", "Feb">>

Contents(series) ==
    [numeric : {TRUE}, vals : series] \cup [numeric : {FALSE}, vals : {Labels}]

\* The header rows of n distinct headers from names.
Headers(names, n) ==
    {h \in [1..n -> names] : \A i, j \in 1..n : h[i] = h[j] => i = j}

\* The table with headers hs and column contents cs.
TableOf(hs, cs) ==
    [i \in 1..Len(hs) |-> [name |-> hs[i], numeric |-> cs[i].numeric, vals |-> cs[i].vals]]

\* t is a table of 1..MaxCols columns with distinct headers from names.
IsTable(t, names, series) ==
    \E n \in 1..MaxCols :
        \E hs \in Headers(names, n) :
            \E cs \in [1..n -> Contents(series)] : t = TableOf(hs, cs)

(******************************* DataFrame *********************************)

\* df.columns.tolist()
Columns(t) == [i \in 1..Len(t) |-> t[i].name]

HasColumn(t, c) == \E i \in 1..Len(t) : t[i].name = c

\* df[c] for a column the table has.
ColumnOf(t, c) == t[CHOOSE i \in 1..Len(t) : t[i].name = c]

RECURSIVE FilterNumeric(_)
FilterNumeric(t) ==
    IF t = <<>> THEN <<>>
    ELSE (IF Head(t).numeric THEN <<Head(t).name>> ELSE <<>>) \o FilterNumeric(Tail(t))

\* df.select_dtypes(include=['number']).columns.tolist()
NumericCols(t) == FilterNumeric(t)

RECURSIVE Sum(_)
Sum(s) == IF s = <<>> THEN 0 ELSE Head(s) + Sum(Tail(s))

\* df[c].mean() as an exact fraction.
Mean(t, c) == [num |-> Sum(ColumnOf(t, c).vals), den |-> Len(ColumnOf(t, c).vals)]

(*************************** float arithmetic ******************************)

\* a < b for fractions with positive denominators.
FracLess(a, b) == a.num * b.den < b.num * a.den

\* Python max(a, b) / min(a, b): the first argument on a tie.
PyMax(a, b) == IF FracLess(a, b) THEN b ELSE a
PyMin(a, b) == IF FracLess(b, a) THEN b ELSE a

\* hi / lo on numpy floats: a zero divisor gives inf, -inf or nan, no exception.
FloatDiv(hi, lo) ==
    IF lo.num = 0
    THEN (IF hi.num = 0 THEN [kind |-> "nan"]
          ELSE IF hi.num > 0 THEN [kind |-> "inf"] ELSE [kind |-> "-inf"])
    ELSE IF lo.num > 0
         THEN [kind |-> "num", num |-> hi.num * lo.den, den |-> hi.den * lo.num]
         ELSE [kind |-> "num", num |-> -(hi.num * lo.den), den |-> -(hi.den * lo.num)]

\* The threshold of the ratio rule.
RatioThreshold == 10

\* ratio >= 10 on floats: false for nan.
RatioAtLeast(r, k) ==
    CASE r.kind = "inf" -> TRUE
      [] r.kind = "num" -> r.num >= k * r.den
      [] OTHER -> FALSE

(****************************** strings ************************************)

\* The lower-case letter of an upper-case one; any other character is kept.
LowerChar(c) ==
    CASE c = "A" -> "a" [] c = "B" -> "b" [] c = "C" -> "c" [] c = "D" -> "d"
      [] c = "E" -> "e" [] c = "F" -> "f" [] c = "G" -> "g" [] c = "H" -> "h"
      [] c = "I" -> "i" [] c = "J" -> "j" [] c = "K" -> "k" [] c = "L" -> "l"
      [] c = "M" -> "m" [] c = "N" -> "n" [] c = "O" -> "o" [] c = "P" -> "p"
      [] c = "Q" -> "q" [] c = "R" -> "r" [] c = "S" -> "s" [] c = "T" -> "t"
      [] c = "U" -> "u" [] c = "V" -> "v" [] c = "W" -> "w" [] c = "X" -> "x"
      [] c = "Y" -> "y" [] c = "Z" -> "z" [] OTHER -> c

\* str.lower()
Lower(s) == [i \in 1..Len(s) |-> LowerChar(s[i])]

\* kw in s
Contains(kw, s) ==
    \E i \in 1..(Len(s) - Len(kw) + 1) : SubSeq(s, i, i + Len(kw) - 1) = kw

keywords_large == << <<"r", "e", "v", "e", "n", "u", "e">>,
                     <<"s", "a", "l", "e", "s">>,
                     <<"i", "n", "c", "o", "m", "e">>,
                     <<"p", "r", "o", "f", "i", "t">>,
                     <<"a", "m", "o", "u", "n", "t">> >>

keywords_count == << <<"c", "u", "s", "t", "o", "m", "e", "r">>,
                     <<"u", "s", "e", "r">>,
                     <<"c", "o", "u", "n", "t">>,
                     <<"t", "o", "t", "a", "l">>,
                     <<"n", "u", "m", "b", "e", "r">> >>

\* any(kw in col.lower() for kw in kws)
MatchesAny(col, kws) ==
    LET low == Lower(col) IN \E k \in 1..Len(kws) : Contains(kws[k], low)

RECURSIVE FilterMatching(_, _)
FilterMatching(cols, kws) ==
    IF cols = <<>> THEN <<>>
    ELSE (IF MatchesAny(Head(cols), kws) THEN <<Head(cols)>> ELSE <<>>)
         \o FilterMatching(Tail(cols), kws)

(************************* the classifier **********************************)

NoConfig ==
    [x_column |-> None, y_column |-> None, y_columns |-> <<>>,
     y1_column |-> None, y2_column |-> None, y1_label |-> None, y2_label |-> None]

DualAxisConfig(x, y1, y2) ==
    [NoConfig EXCEPT !.x_column = x, !.y1_column = y1, !.y2_column = y2,
                     !.y1_label = y1, !.y2_label = y2]

BarConfig(x, y) == [NoConfig EXCEPT !.x_column = x, !.y_column = y]

LineConfig(x, ys) == [NoConfig EXCEPT !.x_column = x, !.y_columns = ys]

\* Mutant of NoNumericData: the empty check is missing.
NoNumericDataUnchecked(t) == FALSE

\* len(numeric_cols) == 0
NoNumericData(t) == Len(NumericCols(t)) = 0

\* ratio of the means of the first two numeric columns
Ratio(t) ==
    LET col1_mean == Mean(t, NumericCols(t)[1])
        col2_mean == Mean(t, NumericCols(t)[2])
    IN  FloatDiv(PyMax(col1_mean, col2_mean), PyMin(col1_mean, col2_mean))

\* The ratio rule: two or more numeric columns and ratio >= 10.
RatioRuleFires(t) ==
    /\ Len(NumericCols(t)) >= 2
    /\ RatioAtLeast(Ratio(t), RatioThreshold)

RatioRuleConfig(t) ==
    DualAxisConfig(Columns(t)[1], NumericCols(t)[1], NumericCols(t)[2])

has_large(t) == \E i \in 1..Len(NumericCols(t)) : MatchesAny(NumericCols(t)[i], keywords_large)
has_count(t) == \E i \in 1..Len(NumericCols(t)) : MatchesAny(NumericCols(t)[i], keywords_count)

\* Mutant of KeywordRuleFires: the test len(numeric_cols) >= 2 is missing.
KeywordRuleFiresAnyCount(t) == has_large(t) /\ has_count(t)

\* The keyword rule.
KeywordRuleFires(t) == has_large(t) /\ has_count(t) /\ Len(NumericCols(t)) >= 2

\* Mutant of KeywordRuleConfig: the last count-matching column is taken.
KeywordRuleConfigLastCount(t) ==
    LET large_col == FilterMatching(NumericCols(t), keywords_large)[1]
        counts == FilterMatching(NumericCols(t), keywords_count)
    IN  DualAxisConfig(Columns(t)[1], large_col, counts[Len(counts)])

KeywordRuleConfig(t) ==
    LET large_col == FilterMatching(NumericCols(t), keywords_large)[1]
        count_col == FilterMatching(NumericCols(t), keywords_count)[1]
    IN  DualAxisConfig(Columns(t)[1], large_col, count_col)

SingleMetricConfig(t) == BarConfig(Columns(t)[1], NumericCols(t)[1])

\* Mutant of TrendConfig: every column of the table is plotted.
TrendConfigAllColumns(t) == LineConfig(Columns(t)[1], Columns(t))

TrendConfig(t) == LineConfig(Columns(t)[1], NumericCols(t))

\* ChartBuilder._detect_chart_type: what it raises or returns.
DetectChartType(t) ==
    IF NoNumericData(t)
    THEN [raised |-> "ValueError", chart_type |-> "none", config |-> NoConfig]
    ELSE IF RatioRuleFires(t)
    THEN [raised |-> "none", chart_type |-> "dual_axis", config |-> RatioRuleConfig(t)]
    ELSE IF KeywordRuleFires(t)
    THEN [raised |-> "none", chart_type |-> "dual_axis", config |-> KeywordRuleConfig(t)]
    ELSE IF Len(NumericCols(t)) = 1
    THEN [raised |-> "none", chart_type |-> "bar", config |-> SingleMetricConfig(t)]
    ELSE [raised |-> "none", chart_type |-> "line", config |-> TrendConfig(t)]

(************************** number formatting ******************************)

DigitChars == <<"0", "1", "2", "3", "4", "5", "6", "7", "8", "9">>

RECURSIVE DigitsOf(_)
DigitsOf(n) ==
    IF n < 10 THEN <<DigitChars[n + 1]>>
    ELSE DigitsOf(n \div 10) \o <<DigitChars[(n % 10) + 1]>>

RECURSIVE GroupThousands(_)
GroupThousands(ds) ==
    IF Len(ds) <= 3 THEN ds
    ELSE GroupThousands(SubSeq(ds, 1, Len(ds) - 3)) \o <<",">> \o SubSeq(ds, Len(ds) - 2, Len(ds))

\* f'{v:,.0f}' for an integer v
FormatThousands(v) ==
    IF v < 0 THEN <<"-">> \o GroupThousands(DigitsOf(-v)) ELSE GroupThousands(DigitsOf(v))

\* f'${v:,.0f}'
FormatCurrency(v) == <<"$">> \o FormatThousands(v)

(****************************** renderers **********************************)

\* One step performed on the pyplot figure.
Op(name, column, text) == [op |-> name, column |-> column, text |-> text]

NoResult == [kind |-> "none", value |-> "", cause |-> ""]
Returned(path) == [kind |-> "returned", value |-> path, cause |-> ""]
Raised(type, cause) == [kind |-> "raised", value |-> type, cause |-> cause]

\* What a renderer leaves behind: the steps performed, the files written, the outcome.
Failure(steps, cause) ==
    [ops |-> steps, files |-> <<>>, result |-> Raised("Exception", cause)]

\* ChartBuilder._save_chart: savefig, close, return the path.
SaveChart(steps, path) ==
    [ops |-> steps \o <<Op("savefig", None, path), Op("close", None, "")>>,
     files |-> <<path>>,
     result |-> Returned(path)]

\* The value annotations of a plotted column.
ValueLabels(t, c, currency) ==
    [i \in 1..Len(ColumnOf(t, c).vals) |->
        Op("text", c, IF currency THEN FormatCurrency(ColumnOf(t, c).vals[i])
                      ELSE FormatThousands(ColumnOf(t, c).vals[i]))]

\* The keywords that put a $ on the bar annotations.
currency_keywords == << <<"r", "e", "v", "e", "n", "u", "e">>,
                        <<"s", "a", "l", "e", "s">>,
                        <<"i", "n", "c", "o", "m", "e">>,
                        <<"p", "r", "o", "f", "i", "t">> >>

\* The second half of create_dual_axis_chart: the line series on the twin axis.
DualAxisSecond(t, steps, y1_label, y2, y2_label, lib) ==
    LET twin == steps \o <<Op("twinx", None, "")>>
        line == twin \o <<Op("plot", y2, y2_label)>>
    IN  IF ~HasColumn(t, y2) THEN Failure(twin, "KeyError")
        ELSE IF ~ColumnOf(t, y2).numeric
        THEN (IF lib THEN Failure(line, "ValueError") ELSE Failure(twin, "TypeError"))
        ELSE SaveChart(line \o ValueLabels(t, y2, FALSE)
                            \o <<Op("legend", None, <<y1_label, y2_label>>)>>,
                       "charts/dual_axis_chart_<ts>.png")

\* ChartBuilder.create_dual_axis_chart; lib: whether the plotting library takes text values.
CreateDualAxisChart(t, x, y1, y2, l1, l2, lib) ==
    LET y1_label == IF l1 = None THEN y1 ELSE l1
        y2_label == IF l2 = None THEN y2 ELSE l2
        fig == <<Op("subplots", None, "")>>
        bars == fig \o <<Op("bar", y1, y1_label)>>
    IN  IF ~HasColumn(t, x) \/ ~HasColumn(t, y1) THEN Failure(fig, "KeyError")
        ELSE IF ~ColumnOf(t, y1).numeric
        THEN (IF lib THEN Failure(bars, "ValueError") ELSE Failure(fig, "TypeError"))
        ELSE DualAxisSecond(t,
                 bars \o ValueLabels(t, y1, MatchesAny(y1, currency_keywords)),
                 y1_label, y2, y2_label, lib)

\* ChartBuilder.create_bar_chart
CreateBarChart(t, x, y, lib) ==
    LET fig == <<Op("figure", None, "")>>
    IN  IF ~HasColumn(t, x) \/ ~HasColumn(t, y) THEN Failure(fig, "ValueError")
        ELSE IF ~ColumnOf(t, y).numeric /\ ~lib THEN Failure(fig, "TypeError")
        ELSE SaveChart(fig \o <<Op("barplot", y, x), Op("bar_label", y, "")>>,
                       "charts/bar_chart_<ts>.png")

\* The loop of create_line_chart: the steps performed and the error that ended it.
RECURSIVE PlotLines(_, _, _, _, _)
PlotLines(t, x, ys, lib, steps) ==
    IF ys = <<>> THEN [ops |-> steps, cause |-> ""]
    ELSE IF ~HasColumn(t, x) \/ ~HasColumn(t, Head(ys))
    THEN [ops |-> steps, cause |-> "KeyError"]
    ELSE IF ~ColumnOf(t, Head(ys)).numeric /\ ~lib
    THEN [ops |-> steps, cause |-> "TypeError"]
    ELSE PlotLines(t, x, Tail(ys), lib, steps \o <<Op("plot", Head(ys), Head(ys))>>)

\* ChartBuilder.create_line_chart
CreateLineChart(t, x, ys, lib) ==
    LET drawn == PlotLines(t, x, ys, lib, <<Op("figure", None, "")>>)
    IN  IF drawn.cause # "" THEN Failure(drawn.ops, drawn.cause)
        ELSE SaveChart(drawn.ops \o <<Op("legend", None, ys)>>,
                       "charts/line_chart_<ts>.png")

(******************************* actions ***********************************)

Call(fn, args) == [fn |-> fn, args |-> args]

NoRecommendation ==
    [chart_type |-> "", x_column |-> None, y1_column |-> None, y2_column |-> None]

\* A renderer has run: its steps, its files and its outcome become the state.
Finish(call, out) ==
    /\ calls' = Append(calls, call)
    /\ ops' = out.ops
    /\ files' = files \o out.files
    /\ result' = out.result
    /\ pc' = IF out.result.kind = "returned" THEN "done" ELSE "failed"

\* auto_visualize, up to the return of _detect_chart_type.
AutoVisualizeDetect ==
    /\ pc = "idle"
    /\ \E r \in {DetectChartType(df)} :
           /\ calls' = Append(calls, Call("_detect_chart_type", NoConfig))
           /\ chart_type' = r.chart_type
           /\ config' = r.config
           /\ IF r.raised # "none"
              THEN /\ pc' = "failed"
                   /\ result' = Raised(r.raised, "")
              ELSE /\ pc' = "detected"
                   /\ result' = result
    /\ UNCHANGED <<df, recommendation, ops, files>>

AutoVisualizeDualAxis ==
    /\ pc = "detected"
    /\ chart_type = "dual_axis"
    /\ \E lib \in BOOLEAN :
         Finish(Call("create_dual_axis_chart", config),
                CreateDualAxisChart(df, config.x_column, config.y1_column,
                    config.y2_column, config.y1_label, config.y2_label, lib))
    /\ UNCHANGED <<df, chart_type, config, recommendation>>

\* Mutant of AutoVisualizeBar: a bar spec is sent to the line renderer.
AutoVisualizeBarAsLine ==
    /\ pc = "detected"
    /\ chart_type = "bar"
    /\ \E lib \in BOOLEAN :
         Finish(Call("create_line_chart", LineConfig(config.x_column, <<config.y_column>>)),
                CreateLineChart(df, config.x_column, <<config.y_column>>, lib))
    /\ UNCHANGED <<df, chart_type, config, recommendation>>

AutoVisualizeBar ==
    /\ pc = "detected"
    /\ chart_type = "bar"
    /\ \E lib \in BOOLEAN :
         Finish(Call("create_bar_chart", BarConfig(config.x_column, config.y_column)),
                CreateBarChart(df, config.x_column, config.y_column, lib))
    /\ UNCHANGED <<df, chart_type, config, recommendation>>

AutoVisualizeLine ==
    /\ pc = "detected"
    /\ chart_type \notin {"dual_axis", "bar"}
    /\ \E lib \in BOOLEAN :
         Finish(Call("create_line_chart", LineConfig(config.x_column, config.y_columns)),
                CreateLineChart(df, config.x_column, config.y_columns, lib))
    /\ UNCHANGED <<df, chart_type, config, recommendation>>

\* What the external model may answer for a table.
ChartTypes == {"dual_axis", "bar", "line", "scatter"}
Recommendations(t) ==
    LET cols == {t[i].name : i \in 1..Len(t)} \cup {Ghost}
    IN  [chart_type : ChartTypes, x_column : cols, y1_column : cols,
         y2_column : cols \cup {None}]

\* analyze_and_visualize, up to the return of analyze_data_for_visualization.
AskRecommendation ==
    /\ pc = "idle"
    /\ recommendation' \in Recommendations(df)
    /\ pc' = "recommended"
    /\ UNCHANGED <<df, chart_type, config, calls, ops, files, result>>

AgentDualAxis ==
    /\ pc = "recommended"
    /\ recommendation.chart_type = "dual_axis"
    /\ \E lib \in BOOLEAN :
         Finish(Call("create_dual_axis_chart",
                     [NoConfig EXCEPT !.x_column = recommendation.x_column,
                                      !.y1_column = recommendation.y1_column,
                                      !.y2_column = recommendation.y2_column]),
                CreateDualAxisChart(df, recommendation.x_column, recommendation.y1_column,
                    recommendation.y2_column, None, None, lib))
    /\ UNCHANGED <<df, chart_type, config, recommendation>>

AgentBar ==
    /\ pc = "recommended"
    /\ recommendation.chart_type = "bar"
    /\ \E lib \in BOOLEAN :
         Finish(Call("create_bar_chart",
                     BarConfig(recommendation.x_column, recommendation.y1_column)),
                CreateBarChart(df, recommendation.x_column, recommendation.y1_column, lib))
    /\ UNCHANGED <<df, chart_type, config, recommendation>>

\* Mutant of Without: the x column is not taken out.
WithoutNothing(cols, x) == cols

\* [col for col in columns if col != recommendation['x_column']]
RECURSIVE Without(_, _)
Without(cols, x) ==
    IF cols = <<>> THEN <<>>
    ELSE (IF Head(cols) # x THEN <<Head(cols)>> ELSE <<>>) \o Without(Tail(cols), x)

AgentLine ==
    /\ pc = "recommended"
    /\ recommendation.chart_type \notin {"dual_axis", "bar"}
    /\ LET y_columns == Without(Columns(df), recommendation.x_column)
       IN  \E lib \in BOOLEAN :
             Finish(Call("create_line_chart", LineConfig(recommendation.x_column, y_columns)),
                    CreateLineChart(df, recommendation.x_column, y_columns, lib))
    /\ UNCHANGED <<df, chart_type, config, recommendation>>

(**************************** specifications *******************************)

Start(names, series) ==
    /\ IsTable(df, names, series)
    /\ pc = "idle"
    /\ chart_type = "none"
    /\ config = NoConfig
    /\ recommendation = NoRecommendation
    /\ calls = <<>>
    /\ ops = <<>>
    /\ files = <<>>
    /\ result = NoResult

\* ChartBuilder.auto_visualize on any table.
Init == Start(Names, Series)

Next ==
    \/ AutoVisualizeDetect
    \/ AutoVisualizeDualAxis
    \/ AutoVisualizeBar
    \/ AutoVisualizeLine

Spec == Init /\ [][Next]_vars

\* IntelligentAgent.analyze_and_visualize on any table and any recommendation.
InitAgent == Start(AgentNames, AgentSeries)

NextAgent ==
    \/ AskRecommendation
    \/ AgentDualAxis
    \/ AgentBar
    \/ AgentLine

SpecAgent == InitAgent /\ [][NextAgent]_vars

(******************************* claims ************************************)

\* The positions of the numeric columns of the table.
NumericIdx == {i \in 1..Len(df) : df[i].numeric}

FirstNumericIdx == CHOOSE i \in NumericIdx : \A j \in NumericIdx : i <= j
SecondNumericIdx ==
    CHOOSE i \in NumericIdx \ {FirstNumericIdx} :
        \A j \in NumericIdx \ {FirstNumericIdx} : i <= j

\* The numeric columns whose lower-cased header contains one of the keywords.
MatchingIdx(kws) == {i \in NumericIdx : MatchesAny(df[i].name, kws)}
FirstMatchingIdx(kws) == CHOOSE i \in MatchingIdx(kws) : \A j \in MatchingIdx(kws) : i <= j

\* The classifier has been called and has returned or raised.
Classified == pc # "idle"

\* The renderer calls made so far.
RendererCalls == SelectSeq(calls, LAMBDA c : c.fn # "_detect_chart_type")

\* The sum and the number of the values of the column at position i.
SumAt(i) == Sum(df[i].vals)
Abs(n) == IF n < 0 THEN -n ELSE n

\* C1: a table with exactly one numeric column, whatever its header and its
\* values, is classified Bar with x_column the first table column and y_column
\* that numeric column.
C1_SingleNumericIsBar ==
    (Classified /\ Cardinality(NumericIdx) = 1) =>
        /\ chart_type = "bar"
        /\ config.x_column = df[1].name
        /\ config.y_column = df[FirstNumericIdx].name

\* C1 witness: the single numeric column is total_sales, which matches a
\* magnitude keyword and a count keyword, and the classifier has answered Bar.
C1_Witness ==
    /\ pc = "detected"
    /\ Cardinality(NumericIdx) = 1
    /\ df[FirstNumericIdx].name = total_sales
    /\ Len(df) >= 2
    /\ chart_type = "bar"

\* C2: with two or more numeric columns whose first two means differ by a
\* factor of 10 or more, whatever their signs, the classifier answers DualAxis
\* over the first two numeric columns, x_column the first table column and the
\* labels the column headers.
C2_TenfoldMeansAnySignIsDualAxis ==
    (/\ Classified
     /\ Cardinality(NumericIdx) >= 2
     /\ SumAt(FirstNumericIdx) # SumAt(SecondNumericIdx)
     /\ \/ Abs(SumAt(FirstNumericIdx)) >= 10 * Abs(SumAt(SecondNumericIdx))
        \/ Abs(SumAt(SecondNumericIdx)) >= 10 * Abs(SumAt(FirstNumericIdx)))
    =>
        /\ chart_type = "dual_axis"
        /\ config.x_column = df[1].name
        /\ config.y1_column = df[FirstNumericIdx].name
        /\ config.y2_column = df[SecondNumericIdx].name
        /\ config.y1_label = df[FirstNumericIdx].name
        /\ config.y2_label = df[SecondNumericIdx].name

\* C3: with two or more numeric columns, the ratio rule not firing, a numeric
\* header matching a magnitude keyword and a numeric header matching a count
\* keyword, the classifier answers DualAxis with y1_column the first
\* magnitude-matching numeric column, y2_column the first count-matching
\* numeric column and x_column the first table column.
C3_KeywordRuleIsDualAxis ==
    (/\ Classified
     /\ Cardinality(NumericIdx) >= 2
     /\ ~RatioRuleFires(df)
     /\ MatchingIdx(keywords_large) # {}
     /\ MatchingIdx(keywords_count) # {})
    =>
        /\ chart_type = "dual_axis"
        /\ config.x_column = df[1].name
        /\ config.y1_column = df[FirstMatchingIdx(keywords_large)].name
        /\ config.y2_column = df[FirstMatchingIdx(keywords_count)].name

\* C3 witness: the keyword rule has fired on a table where two numeric columns
\* match a count keyword and the first of them is not the magnitude column.
C3_Witness ==
    /\ pc = "detected"
    /\ ~RatioRuleFires(df)
    /\ Cardinality(MatchingIdx(keywords_count)) >= 2
    /\ FirstMatchingIdx(keywords_large) # FirstMatchingIdx(keywords_count)
    /\ chart_type = "dual_axis"
    /\ config.y1_column = Revenue
    /\ config.y2_column = Customers

\* C4: with two or more numeric columns and neither the ratio rule nor the
\* keyword rule firing, the classifier answers Line with x_column the first
\* table column and y_columns all the numeric columns in column order.
C4_OtherwiseLineOverAllNumeric ==
    (/\ Classified
     /\ Cardinality(NumericIdx) >= 2
     /\ ~RatioRuleFires(df)
     /\ ~(MatchingIdx(keywords_large) # {} /\ MatchingIdx(keywords_count) # {}))
    =>
        /\ chart_type = "line"
        /\ config.x_column = df[1].name
        /\ LET numeric == SelectSeq(df, LAMBDA c : c.numeric)
           IN  config.y_columns = [i \in 1..Len(numeric) |-> numeric[i].name]

\* C4 witness: Line over three numeric columns, with a text column among the
\* table's columns or all columns numeric.
C4_Witness ==
    /\ pc = "detected"
    /\ chart_type = "line"
    /\ Cardinality(NumericIdx) = 3
    /\ Len(config.y_columns) = 3

\* C5: on a table without numeric columns the classifier raises the
\* no-numeric-data error and returns no chart spec, and auto_visualize calls no
\* renderer and writes no file.
C5_NoNumericDataFails ==
    (Classified /\ NumericIdx = {}) =>
        /\ pc = "failed"
        /\ result = Raised("ValueError", "")
        /\ chart_type = "none"
        /\ config = NoConfig
        /\ RendererCalls = <<>>
        /\ ops = <<>>
        /\ files = <<>>

\* C5 witness: auto_visualize has failed on a table of text columns only.
C5_Witness ==
    /\ pc = "failed"
    /\ NumericIdx = {}
    /\ Len(df) >= 2
    /\ Len(calls) = 1

\* The columns a chart spec of the classifier names.
NamedColumns ==
    CASE chart_type = "dual_axis" -> {config.x_column, config.y1_column, config.y2_column}
      [] chart_type = "bar" -> {config.x_column, config.y_column}
      [] OTHER -> {config.x_column} \cup {config.y_columns[i] : i \in 1..Len(config.y_columns)}

\* C6: every chart spec the classifier returns names only columns of the
\* table, and a DualAxis spec has y1_column different from y2_column.
C6_ChartSpecInvariant ==
    (Classified /\ chart_type # "none") =>
        /\ \A c \in NamedColumns : \E i \in 1..Len(df) : df[i].name = c
        /\ chart_type = "dual_axis" => config.y1_column # config.y2_column

\* C10: when the smaller of the means of the first two numeric columns is
\* zero, the classifier does not fail and answers DualAxis over the first two
\* numeric columns.
C10_ZeroDenominatorIsDualAxis ==
    (/\ Classified
     /\ Cardinality(NumericIdx) >= 2
     /\ \/ SumAt(FirstNumericIdx) = 0 /\ SumAt(SecondNumericIdx) >= 0
        \/ SumAt(SecondNumericIdx) = 0 /\ SumAt(FirstNumericIdx) >= 0)
    =>
        /\ chart_type = "dual_axis"
        /\ config.y1_column = df[FirstNumericIdx].name
        /\ config.y2_column = df[SecondNumericIdx].name

\* The last call made, once a renderer has been called.
RendererCalled == RendererCalls # <<>>
LastCall == calls[Len(calls)]

InTable(c) == \E i \in 1..Len(df) : df[i].name = c

\* C7: the dual-axis renderer, given a spec in which x_column, y1_column or
\* y2_column is not a column of the table, fails with the column-not-found
\* error before any plotting step (no figure, no series) and writes no file.
C7_MissingColumnFailsBeforePlotting ==
    (/\ RendererCalled
     /\ LastCall.fn = "create_dual_axis_chart"
     /\ \/ ~InTable(LastCall.args.x_column)
        \/ ~InTable(LastCall.args.y1_column)
        \/ ~InTable(LastCall.args.y2_column))
    =>
        /\ result.kind = "raised"
        /\ result.cause = "KeyError"
        /\ ops = <<>>
        /\ files = <<>>

\* The recommendation names, for a column its chart type uses, a column the
\* table lacks, or is a dual_axis recommendation with the same column twice.
InvalidRecommendation ==
    \/ ~InTable(recommendation.x_column)
    \/ /\ recommendation.chart_type \in {"dual_axis", "bar"}
       /\ ~InTable(recommendation.y1_column)
    \/ /\ recommendation.chart_type = "dual_axis"
       /\ \/ ~InTable(recommendation.y2_column)
          \/ recommendation.y1_column = recommendation.y2_column

\* C8: in analyze_and_visualize an invalid recommendation makes the request
\* fail before any renderer is called, and no file is written.
C8_RecommendationValidatedBeforeRendering ==
    (pc \in {"done", "failed"} /\ InvalidRecommendation) =>
        /\ pc = "failed"
        /\ ~RendererCalled
        /\ files = <<>>

\* C9: the dual-axis renderer called with y1_column equal to y2_column fails,
\* the line renderer called with an empty y_columns list fails, and in neither
\* case is a file written.
C9_InvalidChartSpecRejected ==
    (/\ RendererCalled
     /\ \/ /\ LastCall.fn = "create_dual_axis_chart"
           /\ LastCall.args.y1_column = LastCall.args.y2_column
        \/ /\ LastCall.fn = "create_line_chart"
           /\ LastCall.args.y_columns = <<>>)
    =>
        /\ result.kind = "raised"
        /\ files = <<>>

\* The value annotations drawn so far.
TextOps == SelectSeq(ops, LAMBDA o : o.op = "text")

\* The dual-axis renderer has run to the end.
DualAxisRendered ==
    /\ pc = "done"
    /\ RendererCalled
    /\ LastCall.fn = "create_dual_axis_chart"

\* C11: in the dual-axis renderer the value annotations of a plotted column,
\* bar series and line series alike, carry the currency prefix if and only if
\* the column header matches one of revenue, sales, income, profit, amount.
C11_CurrencyPrefixIffMagnitudeKeyword ==
    DualAxisRendered =>
        \A i \in 1..Len(TextOps) :
            (Head(TextOps[i].text) = "$") <=> MatchesAny(TextOps[i].column, keywords_large)

\* What the classifier returns for the table of the request.
Classification == DetectChartType(df)

\* The recommendation is the chart spec the classifier returns for the table:
\* same kind, same x column, same y columns.
RecommendationIsClassification ==
    /\ Classification.raised = "none"
    /\ recommendation.chart_type = Classification.chart_type
    /\ recommendation.x_column = Classification.config.x_column
    /\ CASE Classification.chart_type = "dual_axis" ->
              /\ recommendation.y1_column = Classification.config.y1_column
              /\ recommendation.y2_column = Classification.config.y2_column
         [] Classification.chart_type = "bar" ->
              recommendation.y1_column = Classification.config.y_column
         [] OTHER ->
              /\ recommendation.y1_column = Classification.config.y_columns[1]
              /\ recommendation.y2_column = Classification.config.y_columns[2]

\* The renderer auto_visualize calls for a chart type.
RendererOf(kind) ==
    CASE kind = "dual_axis" -> "create_dual_axis_chart"
      [] kind = "bar" -> "create_bar_chart"
      [] OTHER -> "create_line_chart"

\* The x and y columns a renderer call was given.
PlottedColumns(args) ==
    [x_column |-> args.x_column, y_column |-> args.y_column, y_columns |-> args.y_columns,
     y1_column |-> args.y1_column, y2_column |-> args.y2_column]

\* C12: when the recommendation equals the chart spec the classifier returns
\* for the table, analyze_and_visualize calls the renderer auto_visualize
\* calls, with the same x column and the same y columns (for a line chart the
\* classifier's numeric y_columns).
C12_RecommendationConsumedAsClassification ==
    (/\ pc \in {"done", "failed"}
     /\ RecommendationIsClassification)
    =>
        /\ RendererCalled
        /\ LastCall.fn = RendererOf(Classification.chart_type)
        /\ PlottedColumns(LastCall.args) = PlottedColumns(Classification.config)

\* The call auto_visualize makes for the chart spec the classifier returned.
ExpectedRendererCall ==
    CASE chart_type = "dual_axis" ->
             [fn |-> "create_dual_axis_chart",
              args |-> [NoConfig EXCEPT !.x_column = config.x_column,
                                        !.y1_column = config.y1_column,
                                        !.y2_column = config.y2_column,
                                        !.y1_label = config.y1_label,
                                        !.y2_label = config.y2_label]]
      [] chart_type = "bar" ->
             [fn |-> "create_bar_chart",
              args |-> [NoConfig EXCEPT !.x_column = config.x_column,
                                        !.y_column = config.y_column]]
      [] OTHER ->
             [fn |-> "create_line_chart",
              args |-> [NoConfig EXCEPT !.x_column = config.x_column,
                                        !.y_columns = config.y_columns]]

\* C13: an auto_visualize invocation on a table with a numeric column makes
\* one classification and then one renderer call; the renderer is the one of
\* the classified kind and gets the columns of the classifier's config; no
\* renderer runs before the classifier has returned; on success one file has
\* been written and its path is returned.
C13_OneClassificationThenOneRendering ==
    NumericIdx # {} =>
        /\ pc = "idle" => calls = <<>> /\ ops = <<>> /\ files = <<>>
        /\ pc = "detected" =>
              /\ Len(calls) = 1
              /\ calls[1].fn = "_detect_chart_type"
              /\ chart_type \in {"dual_axis", "bar", "line"}
              /\ ops = <<>>
              /\ files = <<>>
        /\ pc \in {"done", "failed"} =>
              /\ Len(calls) = 2
              /\ calls[1].fn = "_detect_chart_type"
              /\ calls[2] = ExpectedRendererCall
        /\ pc = "done" =>
              /\ Len(files) = 1
              /\ result = Returned(files[1])
        /\ pc # "done" => files = <<>>

\* C13 witness: auto_visualize has returned the path of a dual-axis chart
\* after one classification and one call of create_dual_axis_chart.
C13_Witness ==
    /\ pc = "done"
    /\ NumericIdx # {}
    /\ chart_type = "dual_axis"
    /\ Len(calls) = 2
    /\ calls[2].fn = "create_dual_axis_chart"
    /\ files = <<"charts/dual_axis_chart_<ts>.png">>

\* The headers of the table other than the recommended x column, in column order.
OtherColumns ==
    LET others == SelectSeq(df, LAMBDA c : c.name # recommendation.x_column)
    IN  [i \in 1..Len(others) |-> others[i].name]

\* C14: in analyze_and_visualize a recommendation whose chart_type is neither
\* dual_axis nor bar goes to the line renderer with y_columns all the table
\* columns other than the recommended x_column, whatever y1_column and
\* y2_column are and whether or not the columns are numeric; when the only
\* column of the table is the x_column, y_columns is empty.
C14_OtherKindsRenderedAsLineOverOtherColumns ==
    (/\ pc \in {"done", "failed"}
     /\ recommendation.chart_type \notin {"dual_axis", "bar"})
    =>
        /\ Len(calls) = 1
        /\ LastCall.fn = "create_line_chart"
        /\ LastCall.args.x_column = recommendation.x_column
        /\ LastCall.args.y_columns = OtherColumns
        /\ (Len(df) = 1 /\ df[1].name = recommendation.x_column) =>
               LastCall.args.y_columns = <<>>

\* C14 witness: an unrecognised chart type on a table with a text column that
\* is not the x column; the line renderer was given that text column and not
\* the recommended y1_column alone.
C14_Witness ==
    /\ pc \in {"done", "failed"}
    /\ recommendation.chart_type = "scatter"
    /\ Len(df) = 3
    /\ recommendation.x_column = df[1].name
    /\ ~df[3].numeric
    /\ recommendation.y1_column = df[2].name
    /\ LastCall.fn = "create_line_chart"
    /\ LastCall.args.y_columns = <<df[2].name, df[3].name>>

=============================================================================
